---- MODULE Spec2Model ----
(***************************************************************************)
(* Model of shot.c: main() and parse_options(), the option loop that       *)
(* drives the region resolvers, and the final validation before capture.   *)
(* The resolvers declared in region_picker/*.h and monitor_mgr.h are not   *)
(* part of shot.c; they are modelled from the written specification.       *)
(***************************************************************************)
EXTENDS Integers, Sequences, FiniteSets, TLC

(* ---------------------------------------------------------------- bounds *)

\* Number of options getopt_long hands out before it must report the end of argv.
MaxArgs == 3

\* Number of pointer-move events one interactive selection may receive.
MaxMoves == 1

(* ------------------------------------------------------- basic data types *)

Rect(x, y, w, h) == [x |-> x, y |-> y, width |-> w, height |-> h]

Mon(x, y, w, h, p) == [x |-> x, y |-> y, width |-> w, height |-> h, primary |-> p]

Min(a, b) == IF a < b THEN a ELSE b

Max(a, b) == IF a > b THEN a ELSE b

\* Monitor layouts monitor_mgr_create can enumerate (at least one monitor each).
MonitorLayouts ==
    { << Mon(0, 0, 1920, 1080, TRUE) >>,
      << Mon(0, 0, 1920, 1080, TRUE), Mon(1920, 0, 1280, 1024, FALSE) >>,
      << Mon(-1280, 56, 1280, 1024, FALSE), Mon(0, 0, 1920, 1080, FALSE) >> }

\* The null MonitorManager handle.
NULL == << >>

\* region_picker/errors.h: the resolvers' failure codes (0 is success).
ERR_NOT_IMPLEMENTED == 1

ERR_CANCELED == 2

ERR_INVALID_ARGUMENT == 3

ERR_OTHER == 4

\* int region_result = -1: no mode flag processed yet.
NoResult == -1

(* --------------------------------------------------------- C string input *)

Digits == << "0", "1", "2", "3", "4", "5", "6", "7", "8", "9" >>

IsDigit(ch) == \E i \in 1..10 : Digits[i] = ch

DigitVal(ch) == (CHOOSE i \in 1..10 : Digits[i] = ch) - 1

\* Position of the first character at or after i that is not a digit.
RECURSIVE DigitsEnd(_, _)
DigitsEnd(s, i) ==
    IF i <= Len(s) /\ IsDigit(s[i]) THEN DigitsEnd(s, i + 1) ELSE i

\* Value of the digits s[i..j-1].
RECURSIVE DigitsVal(_, _, _, _)
DigitsVal(s, i, j, acc) ==
    IF i >= j THEN acc ELSE DigitsVal(s, i + 1, j, acc * 10 + DigitVal(s[i]))

RECURSIVE SkipSpace(_, _)
SkipSpace(s, i) ==
    IF i <= Len(s) /\ s[i] = " " THEN SkipSpace(s, i + 1) ELSE i

\* atoi(3): leading blanks, an optional sign, then digits up to the first
\* character that is not one; 0 when there are no digits.
atoi(s) ==
    LET i == SkipSpace(s, 1)
        neg == i <= Len(s) /\ s[i] = "-"
        j == IF i <= Len(s) /\ s[i] \in {"-", "+"} THEN i + 1 ELSE i
        v == DigitsVal(s, j, DigitsEnd(s, j), 0)
    IN IF neg THEN -v ELSE v

\* size_t is held as SizeLimbs limbs of LimbBits-many values each, least
\* significant first, so that 2^64 need not be written as one integer.
LimbBase == 65536

SizeLimbs == 4

\* Conversion of an int to size_t: the value modulo 2^(16 * SizeLimbs).
RECURSIVE ToLimbs(_, _)
ToLimbs(v, k) ==
    IF k = 0 THEN << >> ELSE << v % LimbBase >> \o ToLimbs(v \div LimbBase, k - 1)

ToSizeT(v) == ToLimbs(v, SizeLimbs)

\* a >= b on size_t values.
RECURSIVE LimbsGE(_, _, _)
LimbsGE(a, b, k) ==
    IF k = 0 THEN TRUE
    ELSE IF a[k] # b[k] THEN a[k] > b[k]
    ELSE LimbsGE(a, b, k - 1)

SizeGE(a, b) == LimbsGE(a, b, SizeLimbs)

\* The array index a size_t below 2^31 denotes (0-based).
SizeIndex(a) == a[2] * LimbBase + a[1]

(* ------------------------------------------------- region resolvers *)

\* C integer division: the quotient truncated toward zero.
CDiv(a, b) == IF a >= 0 THEN a \div b ELSE -((-a) \div b)

\* init_region: 640x480 at (40,40), re-centred on every monitor marked
\* primary in enumeration order, so the last one marked decides.
RECURSIVE init_region_from(_, _, _)
init_region_from(region, monitors, i) ==
    IF i > Len(monitors) THEN region
    ELSE LET m == monitors[i]
             centred == [region EXCEPT
                            !.x = m.x + CDiv(m.width - region.width, 2),
                            !.y = m.y + CDiv(m.height - region.height, 2)]
         IN init_region_from(IF m.primary THEN centred ELSE region, monitors, i + 1)

init_region(mgr) == init_region_from(Rect(40, 40, 640, 480), mgr, 1)

\* A resolver's outcome: its return code and the region it leaves behind.
Outcome(result, region) == [result |-> result, region |-> region]

\* The least and the greatest of a non-empty sequence of integers, from i on.
RECURSIVE MinOver(_, _)
MinOver(values, i) ==
    IF i = Len(values) THEN values[i]
    ELSE Min(values[i], MinOver(values, i + 1))

RECURSIVE MaxOver(_, _)
MaxOver(values, i) ==
    IF i = Len(values) THEN values[i]
    ELSE Max(values[i], MaxOver(values, i + 1))

\* update_region_from_all_monitors: the bounding box of every monitor.
update_region_from_all_monitors(mgr) ==
    LET left == [i \in 1..Len(mgr) |-> mgr[i].x]
        top == [i \in 1..Len(mgr) |-> mgr[i].y]
        right == [i \in 1..Len(mgr) |-> mgr[i].x + mgr[i].width]
        bottom == [i \in 1..Len(mgr) |-> mgr[i].y + mgr[i].height]
        x0 == MinOver(left, 1)
        y0 == MinOver(top, 1)
    IN Outcome(0, Rect(x0, y0, MaxOver(right, 1) - x0, MaxOver(bottom, 1) - y0))

\* update_region_from_monitor: the monitor's rectangle, verbatim.
update_region_from_monitor(m) == Outcome(0, Rect(m.x, m.y, m.width, m.height))

\* End of an offset "+<int>" starting at i, or 0 when there is none.
OffsetEnd(s, i) ==
    LET j == IF i + 1 <= Len(s) /\ s[i + 1] = "-" THEN i + 2 ELSE i + 1
        k == DigitsEnd(s, j)
    IN IF i <= Len(s) /\ s[i] = "+" /\ k > j THEN k ELSE 0

OffsetVal(s, i) ==
    LET neg == s[i + 1] = "-"
        j == IF neg THEN i + 2 ELSE i + 1
        v == DigitsVal(s, j, DigitsEnd(s, j), 0)
    IN IF neg THEN -v ELSE v

\* update_region_from_string: <width>x<height>[+<x>+<y>], width and height
\* positive, the whole string consumed; anything else is ERR_INVALID_ARGUMENT
\* and leaves the region as it was.
update_region_from_string(region, s) ==
    LET i1 == DigitsEnd(s, 1)
        i2 == DigitsEnd(s, i1 + 1)
        sized == i1 > 1 /\ i1 <= Len(s) /\ s[i1] = "x" /\ i2 > i1 + 1
        w == DigitsVal(s, 1, i1, 0)
        h == DigitsVal(s, i1 + 1, i2, 0)
        i3 == OffsetEnd(s, i2)
        i4 == IF i3 = 0 THEN 0 ELSE OffsetEnd(s, i3)
        bad == Outcome(ERR_INVALID_ARGUMENT, region)
    IN IF ~sized \/ w <= 0 \/ h <= 0 THEN bad
       ELSE IF i2 = Len(s) + 1 THEN Outcome(0, Rect(0, 0, w, h))
       ELSE IF i3 # 0 /\ i4 = Len(s) + 1
            THEN Outcome(0, Rect(OffsetVal(s, i2), OffsetVal(s, i3), w, h))
       ELSE bad

\* What the platform answers to the focused-window query.
WindowAnswers ==
    { Outcome(ERR_NOT_IMPLEMENTED, Rect(0, 0, 0, 0)),
      Outcome(ERR_OTHER, Rect(0, 0, 0, 0)),
      Outcome(0, Rect(10, 20, 800, 600)),
      Outcome(0, Rect(10, 20, 0, 600)) }

\* update_region_from_active_window: the focused window's bounds, unclamped;
\* a failure leaves the region as it was.
update_region_from_active_window(region, answer) ==
    IF answer.result = 0 THEN answer ELSE Outcome(answer.result, region)

(* --------------------------------------------------------------- getopt *)

\* const char *short_opt = "ho:r:diw";
short_opt == << "h", "o", ":", "r", ":", "d", "i", "w" >>

no_argument == FALSE

required_argument == TRUE

\* struct option long_opt[]
long_opt ==
    << [name |-> "help",        has_arg |-> no_argument,       val |-> "h"],
       [name |-> "output",      has_arg |-> required_argument, val |-> "o"],
       [name |-> "region",      has_arg |-> required_argument, val |-> "r"],
       [name |-> "monitor",     has_arg |-> required_argument, val |-> "m"],
       [name |-> "desktop",     has_arg |-> no_argument,       val |-> "d"],
       [name |-> "interactive", has_arg |-> no_argument,       val |-> "i"],
       [name |-> "window",      has_arg |-> no_argument,       val |-> "w"] >>

\* One option of argv: "-c" or "--name", and the argv words it can take as
\* its argument (none or one).
Opt(form, name, args) == [form |-> form, name |-> name, args |-> args]

NoArg == << >>

Got(c, optarg) == [c |-> c, optarg |-> optarg]

\* getopt_long on one option: the option character and optarg, '?' for an
\* option the tables do not list or a required argument that is missing.
getopt_long(tok) ==
    LET si == { i \in 1..Len(short_opt) :
                    short_opt[i] = tok.name /\ short_opt[i] # ":" }
        li == { i \in 1..Len(long_opt) : long_opt[i].name = tok.name }
        found == IF tok.form = "short" THEN si # {} ELSE li # {}
        c == IF tok.form = "short" THEN tok.name
             ELSE long_opt[CHOOSE i \in li : TRUE].val
        takes == IF tok.form = "short"
                 THEN LET i == CHOOSE i \in si : TRUE
                      IN i < Len(short_opt) /\ short_opt[i + 1] = ":"
                 ELSE long_opt[CHOOSE i \in li : TRUE].has_arg
    IN IF ~found THEN Got("?", NoArg)
       ELSE IF ~takes THEN Got(c, NoArg)
       ELSE IF tok.args = << >> THEN Got("?", NoArg)
       ELSE Got(c, tok.args[1])

GeometryStrings ==
    { << "3", "0", "0", "x", "2", "0", "0", "+", "1", "0", "+", "-", "5" >>,
      << "6", "4", "x", "4", "8" >>,
      << "0", "x", "1", "0", "0" >>,
      << "1", "0", "0", "x", "1", "0", "0", "+", "x", "+", "0" >> }

MonitorArgs ==
    { << "0" >>, << "1" >>, << "2" >>, << "-", "1" >>, << "1", "x" >> }

\* The options a command line is made of.
Tokens ==
    { Opt("short", "h", NoArg), Opt("long", "help", NoArg),
      Opt("short", "o", << << "p" >> >>), Opt("long", "output", NoArg),
      Opt("short", "d", NoArg), Opt("long", "desktop", NoArg),
      Opt("short", "i", NoArg), Opt("long", "interactive", NoArg),
      Opt("short", "w", NoArg), Opt("long", "window", NoArg),
      Opt("short", "x", NoArg), Opt("long", "bogus", NoArg) }
    \cup { Opt("long", "region", << s >>) : s \in GeometryStrings }
    \cup { Opt("short", "r", << << "6", "4", "x", "4", "8" >> >>) }
    \cup { Opt("long", "monitor", << s >>) : s \in MonitorArgs }
    \cup { Opt("short", "m", << s >>) : s \in { << "0" >>, << "1" >> } }

(* ---------------------------------------------------------------- state *)

VARIABLES
    pc,             \* where main is: "main", "loop", "select", "parsed", "end", "done"
    monitor_mgr,    \* the MonitorManager's monitors, NULL before/without creation
    options,        \* struct ShotOptions: error, output_path, region
    region_result,  \* parse_options' region_result
    optind,         \* number of options getopt_long has handed out
    sel,            \* the interactive selector's SelectionState
    last,           \* the last mode flag processed and what the outside answered it
    invoked,        \* the resolver call sites executed so far
    mode_failed,    \* some mode flag has failed so far
    retried,        \* a resolver was called after some mode flag had failed
    stopped_by,     \* what set options.error in the loop: "none", "help", "option"
    tok,            \* the option getopt_long handed out last
    save_result,    \* what bitmap_save_to_png returned, -1 before it is called
    stderr,         \* the messages printed so far
    output_path,    \* main's output_path: "NULL", "allocated", "freed"
    bitmap,         \* main's bitmap: "NULL", "created", "destroyed"
    grab_arg,       \* the regions grab_screenshot was called with
    mgr_destroyed,  \* number of monitor_mgr_destroy calls
    exit_code       \* main's exit_code

vars ==
    << pc, monitor_mgr, options, region_result, optind, sel, last, invoked,
       mode_failed, retried, stopped_by, tok, save_result, stderr, output_path,
       bitmap, grab_arg, mgr_destroyed, exit_code >>

Point(x, y) == [x |-> x, y |-> y]

\* No selection under way.
NoSel ==
    [phase |-> "Idle", working_area |-> Rect(0, 0, 0, 0),
     anchor |-> Point(0, 0), current |-> Point(0, 0), moves |-> 0]

\* No mode flag processed.
NoMode ==
    [c |-> "none", optarg |-> NoArg, env |-> Outcome(0, Rect(0, 0, 0, 0)),
     sites |-> {}]

\* No option handed out.
NoTok == Opt("none", "", NoArg)

\* Placeholder for the answer of a mode that asks nothing of the outside.
NoEnv == Outcome(0, Rect(0, 0, 0, 0))

Init ==
    /\ pc = "main"
    /\ monitor_mgr = NULL
    /\ options = [error |-> 0, output_path |-> NoArg, region |-> Rect(0, 0, 0, 0)]
    /\ region_result = NoResult
    /\ optind = 0
    /\ sel = NoSel
    /\ last = NoMode
    /\ invoked = {}
    /\ mode_failed = FALSE
    /\ retried = FALSE
    /\ stopped_by = "none"
    /\ tok = NoTok
    /\ save_result = -1
    /\ stderr = {}
    /\ output_path = "NULL"
    /\ bitmap = "NULL"
    /\ grab_arg = {}
    /\ mgr_destroyed = 0
    /\ exit_code = 1

(* ----------------------------------------------------------------- main *)

\* main, lines 254-259: monitor_mgr_create found no usable display.
MonitorMgrCreateFails ==
    /\ pc = "main"
    /\ stderr' = stderr \cup {"mgr_failed"}
    /\ pc' = "end"
    /\ UNCHANGED << monitor_mgr, options, region_result, optind, sel, last,
                    invoked, mode_failed, retried, stopped_by, tok, save_result, output_path,
                    bitmap, grab_arg, mgr_destroyed, exit_code >>

\* main line 254 and parse_options lines 56-68: the manager is created and
\* parse_options sets up its locals.
ParseOptionsBegin ==
    /\ pc = "main"
    /\ \E layout \in MonitorLayouts :
          /\ monitor_mgr' = layout
          /\ options' = [error |-> 0, output_path |-> NoArg,
                         region |-> init_region(layout)]
    /\ region_result' = NoResult
    /\ pc' = "loop"
    /\ UNCHANGED << optind, sel, last, invoked, mode_failed, retried, stopped_by, tok, save_result,
                    stderr, output_path, bitmap, grab_arg, mgr_destroyed,
                    exit_code >>

(* -------------------------------------------------------- parse_options *)

\* Faulty variant of Looping: the loop does not test options.error.
Looping_ignores_error == pc = "loop" /\ optind < MaxArgs

\* while (!options.error) with argv not yet exhausted.
Looping == pc = "loop" /\ options.error = 0 /\ optind < MaxArgs

\* The bookkeeping common to the cases that leave the region alone.
NoModeStep ==
    /\ optind' = optind + 1
    /\ UNCHANGED << pc, monitor_mgr, region_result, sel, last, invoked,
                    mode_failed, retried, output_path, bitmap, grab_arg,
                    mgr_destroyed, exit_code >>

\* case 'o'
CaseO ==
    /\ Looping
    /\ \E t \in Tokens :
          /\ getopt_long(t).c = "o"
          /\ tok' = t
          /\ options' = [options EXCEPT !.output_path = getopt_long(t).optarg]
    /\ NoModeStep
    /\ UNCHANGED << stopped_by, save_result, stderr >>

\* case 'h'
CaseH ==
    /\ Looping
    /\ \E t \in Tokens : getopt_long(t).c = "h" /\ tok' = t
    /\ options' = [options EXCEPT !.error = -1]
    /\ stopped_by' = "help"
    /\ stderr' = stderr \cup {"usage"}
    /\ NoModeStep
    /\ UNCHANGED save_result

\* case ':', case '?' and default
CaseError ==
    /\ Looping
    /\ \E t \in Tokens :
          LET c == getopt_long(t).c
          IN /\ c \notin {"o", "h", "d", "m", "r", "i", "w"}
             /\ tok' = t
             /\ stderr' = stderr \cup
                    (IF c \in {":", "?"} THEN {"usage_hint"}
                     ELSE {"invalid_option", "usage_hint"})
    /\ options' = [options EXCEPT !.error = 1]
    /\ stopped_by' = "option"
    /\ NoModeStep
    /\ UNCHANGED save_result

\* Faulty variant of ModeStep: a failure code already in region_result is
\* kept instead of being overwritten by the next mode.
ModeStep_first_failure_kept(got, env, out, sites, msgs) ==
    /\ region_result' = IF region_result > 0 THEN region_result ELSE out.result
    /\ options' = [options EXCEPT !.region = out.region]
    /\ last' = [c |-> got.c, optarg |-> got.optarg, env |-> env,
                sites |-> sites]
    /\ invoked' = invoked \cup sites
    /\ retried' = (retried \/ (mode_failed /\ sites # {}))
    /\ mode_failed' = (mode_failed \/ out.result # 0)
    /\ stderr' = stderr \cup msgs
    /\ optind' = optind + 1
    /\ pc' = "loop"
    /\ UNCHANGED << monitor_mgr, stopped_by, save_result, output_path, bitmap,
                    grab_arg, mgr_destroyed, exit_code >>

\* A mode case: region_result and options.region take the resolver's outcome.
ModeStep(got, env, out, sites, msgs) ==
    /\ region_result' = out.result
    /\ options' = [options EXCEPT !.region = out.region]
    /\ last' = [c |-> got.c, optarg |-> got.optarg, env |-> env,
                sites |-> sites]
    /\ invoked' = invoked \cup sites
    /\ retried' = (retried \/ (mode_failed /\ sites # {}))
    /\ mode_failed' = (mode_failed \/ out.result # 0)
    /\ stderr' = stderr \cup msgs
    /\ optind' = optind + 1
    /\ pc' = "loop"
    /\ UNCHANGED << monitor_mgr, stopped_by, save_result, output_path, bitmap,
                    grab_arg, mgr_destroyed, exit_code >>

\* Faulty variant of CaseD: the desktop is taken to be the first monitor.
CaseD_first_monitor ==
    /\ Looping
    /\ \E t \in Tokens :
          /\ getopt_long(t).c = "d"
          /\ tok' = t
          /\ ModeStep(getopt_long(t), NoEnv,
                      update_region_from_monitor(monitor_mgr[1]),
                      {"desktop"}, {})
    /\ UNCHANGED sel

\* case 'd'
CaseD ==
    /\ Looping
    /\ \E t \in Tokens :
          /\ getopt_long(t).c = "d"
          /\ tok' = t
          /\ ModeStep(getopt_long(t), NoEnv,
                      update_region_from_all_monitors(monitor_mgr),
                      {"desktop"}, {})
    /\ UNCHANGED sel

\* Faulty variant of monitor_out_of_range: n is an int, not a size_t.
monitor_out_of_range_signed(optarg, mgr) == atoi(optarg) >= Len(mgr)

\* case 'm', line 118: n >= monitor_mgr->monitor_count
monitor_out_of_range(optarg, mgr) ==
    SizeGE(ToSizeT(atoi(optarg)), ToSizeT(Len(mgr)))

\* Faulty variant of monitor_at: the index is ignored.
monitor_at_first(optarg, mgr) == mgr[1]

\* case 'm', line 130: monitor_mgr->monitors[n]
monitor_at(optarg, mgr) == mgr[SizeIndex(ToSizeT(atoi(optarg))) + 1]

\* What a read past the end of monitors[] can find there.
OutOfBoundsReads == { Mon(0, 0, 0, 0, FALSE), Mon(7, 7, 7, 7, TRUE) }

\* Line 130, the read of monitors[n]: the monitor when n is an index of the
\* array, anything when it is not.
monitor_read(optarg, mgr) ==
    IF SizeGE(ToSizeT(atoi(optarg)), ToSizeT(Len(mgr)))
    THEN OutOfBoundsReads
    ELSE {monitor_at(optarg, mgr)}

\* The call sites line 130 goes through: the resolver, and the read past the
\* array when n is no index of it.
monitor_sites(optarg, mgr) ==
    IF SizeGE(ToSizeT(atoi(optarg)), ToSizeT(Len(mgr)))
    THEN {"monitor", "out_of_bounds_read"}
    ELSE {"monitor"}

\* case 'm'
CaseM ==
    /\ Looping
    /\ \E t \in Tokens :
          LET got == getopt_long(t)
          IN /\ got.c = "m"
             /\ tok' = t
             /\ IF monitor_out_of_range(got.optarg, monitor_mgr)
                THEN ModeStep(got, NoEnv,
                              Outcome(ERR_INVALID_ARGUMENT, options.region),
                              {}, {"invalid_monitor_number"})
                ELSE \E m \in monitor_read(got.optarg, monitor_mgr) :
                         ModeStep(got, NoEnv, update_region_from_monitor(m),
                                  monitor_sites(got.optarg, monitor_mgr), {})
    /\ UNCHANGED sel

\* case 'r'
CaseR ==
    /\ Looping
    /\ \E t \in Tokens :
          LET got == getopt_long(t)
          IN /\ got.c = "r"
             /\ tok' = t
             /\ ModeStep(got, NoEnv,
                         update_region_from_string(options.region, got.optarg),
                         {"string"}, {})
    /\ UNCHANGED sel

\* case 'w'
CaseW ==
    /\ Looping
    /\ \E t \in Tokens, answer \in WindowAnswers :
          /\ getopt_long(t).c = "w"
          /\ tok' = t
          /\ ModeStep(getopt_long(t), answer,
                      update_region_from_active_window(options.region, answer),
                      {"active_window"}, {})
    /\ UNCHANGED sel

(* --------------------------------------------------- interactive mode *)

\* Faulty variant of interactive_working_area: the region chosen so far is
\* handed to the selector as its working area.
interactive_working_area_region(region, mgr) == Outcome(0, region)

\* case 'i', lines 142-145: the working area handed to the selector.
interactive_working_area(region, mgr) == update_region_from_all_monitors(mgr)

\* case 'i' up to the call of update_region_interactively, which then waits
\* for pointer and cancel events.
CaseI ==
    /\ Looping
    /\ \E t \in Tokens : getopt_long(t).c = "i" /\ tok' = t
    /\ LET wa == interactive_working_area(options.region, monitor_mgr)
       IN /\ region_result' = wa.result
          /\ sel' = [NoSel EXCEPT !.working_area = wa.region]
    /\ invoked' = invoked \cup {"working_area", "interactive"}
    /\ retried' = (retried \/ mode_failed)
    /\ last' = [c |-> "i", optarg |-> NoArg, env |-> NoEnv,
                sites |-> {"working_area", "interactive"}]
    /\ pc' = "select"
    /\ UNCHANGED << monitor_mgr, options, optind, mode_failed, stopped_by,
                    save_result, stderr, output_path, bitmap, grab_arg,
                    mgr_destroyed, exit_code >>

\* The positions pointer events arrive with.
PointerPoints ==
    { Point(300, 200), Point(100, 50), Point(-50, -50), Point(9000, 9000) }

\* A point moved onto the nearest point of the working area.
Clamp(p, wa) ==
    Point(Min(Max(p.x, wa.x), wa.x + wa.width),
          Min(Max(p.y, wa.y), wa.y + wa.height))

Abs(a) == IF a < 0 THEN -a ELSE a

\* Faulty variant of LiveRect: the corners are taken in drag order.
LiveRect_unordered(s) ==
    Rect(s.anchor.x, s.anchor.y,
         s.current.x - s.anchor.x, s.current.y - s.anchor.y)

\* The live rectangle spanned by anchor and current.
LiveRect(s) ==
    Rect(Min(s.anchor.x, s.current.x), Min(s.anchor.y, s.current.y),
         Abs(s.anchor.x - s.current.x), Abs(s.anchor.y - s.current.y))

\* Idle -> Dragging on the first pointer press.
SelectPress ==
    /\ pc = "select"
    /\ sel.phase = "Idle"
    /\ \E p \in PointerPoints :
          sel' = [sel EXCEPT !.phase = "Dragging",
                             !.anchor = Clamp(p, sel.working_area),
                             !.current = Clamp(p, sel.working_area)]
    /\ UNCHANGED << pc, monitor_mgr, options, region_result, optind, last,
                    invoked, mode_failed, retried, stopped_by, tok, save_result, stderr,
                    output_path, bitmap, grab_arg, mgr_destroyed, exit_code >>

\* Dragging -> Dragging on a pointer move.
SelectMove ==
    /\ pc = "select"
    /\ sel.phase = "Dragging"
    /\ sel.moves < MaxMoves
    /\ \E p \in PointerPoints :
          sel' = [sel EXCEPT !.current = Clamp(p, sel.working_area),
                             !.moves = sel.moves + 1]
    /\ UNCHANGED << pc, monitor_mgr, options, region_result, optind, last,
                    invoked, mode_failed, retried, stopped_by, tok, save_result, stderr,
                    output_path, bitmap, grab_arg, mgr_destroyed, exit_code >>

\* Dragging -> Committed on pointer release; update_region_interactively
\* returns 0 with the live rectangle and case 'i' ends (lines 146-148). The
\* SelectionState is destroyed when the mode exits; only its phase is kept.
SelectRelease ==
    /\ pc = "select"
    /\ sel.phase = "Dragging"
    /\ sel' = [NoSel EXCEPT !.phase = "Committed"]
    /\ LET out == Outcome(0, LiveRect(sel))
       IN ModeStep(Got("i", NoArg), out, out, last.sites, {})
    /\ UNCHANGED tok

\* Faulty variant of SelectCancel: the live rectangle of the drag is written
\* to the region before ERR_CANCELED is returned.
SelectCancel_commits ==
    /\ pc = "select"
    /\ sel.phase \in {"Idle", "Dragging"}
    /\ sel' = [NoSel EXCEPT !.phase = "Canceled"]
    /\ LET out == Outcome(ERR_CANCELED, LiveRect(sel))
       IN ModeStep(Got("i", NoArg), out, out, last.sites, {})
    /\ UNCHANGED tok

\* Idle or Dragging -> Canceled on a cancel input; update_region_interactively
\* returns ERR_CANCELED with the region untouched and case 'i' ends.
SelectCancel ==
    /\ pc = "select"
    /\ sel.phase \in {"Idle", "Dragging"}
    /\ sel' = [NoSel EXCEPT !.phase = "Canceled"]
    /\ LET out == Outcome(ERR_CANCELED, options.region)
       IN ModeStep(Got("i", NoArg), out, out, last.sites, {})
    /\ UNCHANGED tok

(* ------------------------------------------- parse_options, after the loop *)

\* Faulty variant of takes_fallback: any result but success takes the fallback.
takes_fallback_unless_ok(result) == result # 0

\* Lines 165-170: the all-monitors fallback is taken when region_result is
\* still -1.
takes_fallback(result) == result = NoResult

\* Faulty variant of failure_messages: the ERR_OTHER branch is missing and
\* the last branch is a bare else.
failure_messages_else(result) ==
    IF result = 0 THEN {}
    ELSE IF result = ERR_CANCELED THEN {"canceled"}
    ELSE IF result = ERR_NOT_IMPLEMENTED THEN {"not_implemented"}
    ELSE {"invalid_argument", "usage_hint"}

\* Lines 172-190: the message printed for a resolver's failure code.
failure_messages(result) ==
    IF result = 0 THEN {}
    ELSE IF result = ERR_CANCELED THEN {"canceled"}
    ELSE IF result = ERR_NOT_IMPLEMENTED THEN {"not_implemented"}
    ELSE IF result = ERR_INVALID_ARGUMENT THEN {"invalid_argument", "usage_hint"}
    ELSE IF result = ERR_OTHER THEN {"other"}
    ELSE {}

\* Faulty variant of error_after: the failure does not set options.error.
error_after_kept(result, error) == error

\* Lines 172 and 191: the failure sets options.error.
error_after(result, error) == IF result # 0 THEN 1 ELSE error

\* The loop ends (an option error, or getopt_long returned -1) and lines
\* 164-194 run: fallback, failure message, return.
ParseOptionsEnd ==
    /\ pc = "loop"
    /\ LET fb == takes_fallback(region_result)
           out == IF fb THEN update_region_from_all_monitors(monitor_mgr)
                  ELSE Outcome(region_result, options.region)
       IN /\ region_result' = out.result
          /\ options' = [options EXCEPT
                            !.region = out.region,
                            !.error = error_after(out.result, options.error)]
          /\ stderr' = stderr \cup failure_messages(out.result)
          /\ invoked' = IF fb THEN invoked \cup {"fallback"} ELSE invoked
          /\ retried' = (retried \/ (fb /\ mode_failed))
    /\ pc' = "parsed"
    /\ UNCHANGED << monitor_mgr, optind, sel, last, mode_failed, stopped_by, tok, save_result,
                    output_path, bitmap, grab_arg, mgr_destroyed, exit_code >>

(* ------------------------------------------------------ main, continued *)

\* Lines 263-264: an option error skips everything.
MainOptionError ==
    /\ pc = "parsed"
    /\ options.error # 0
    /\ pc' = "end"
    /\ UNCHANGED << monitor_mgr, options, region_result, optind, sel, last,
                    invoked, mode_failed, retried, stopped_by, tok, save_result, stderr,
                    output_path, bitmap, grab_arg, mgr_destroyed, exit_code >>

\* Faulty variant of region_rejected: only a region empty in both
\* dimensions is rejected.
region_rejected_both(region) == region.width <= 0 /\ region.height <= 0

\* Line 269: the final validation.
region_rejected(region) == region.width <= 0 \/ region.height <= 0

\* Lines 266-274: the output path is allocated, the region is rejected.
MainRejectRegion ==
    /\ pc = "parsed"
    /\ options.error = 0
    /\ region_rejected(options.region)
    /\ output_path' = "allocated"
    /\ stderr' = stderr \cup {"non_positive"}
    /\ pc' = "end"
    /\ UNCHANGED << monitor_mgr, options, region_result, optind, sel, last,
                    invoked, mode_failed, retried, stopped_by, tok, save_result, bitmap, grab_arg,
                    mgr_destroyed, exit_code >>

\* Faulty variant of exit_code_after_save: the save's result is ignored.
exit_code_after_save_ignored(saved) == 0

\* Line 278-280: the exit code after bitmap_save_to_png returned `saved`.
exit_code_after_save(saved) == IF saved # 0 THEN 1 ELSE 0

\* Lines 266-280: the output path is allocated, the region passes, the
\* screenshot is grabbed and saved.
MainGrab ==
    /\ pc = "parsed"
    /\ options.error = 0
    /\ ~region_rejected(options.region)
    /\ output_path' = "allocated"
    /\ grab_arg' = grab_arg \cup {options.region}
    /\ bitmap' = "created"
    /\ \E saved \in {0, 1} :
          /\ save_result' = saved
          /\ exit_code' = exit_code_after_save(saved)
    /\ pc' = "end"
    /\ UNCHANGED << monitor_mgr, options, region_result, optind, sel, last,
                    invoked, mode_failed, retried, stopped_by, tok, stderr,
                    mgr_destroyed >>

\* Lines 283-286: a pointer that is not null is released; releasing what
\* was already released is a double release.
Released(ptr, live, gone) ==
    IF ptr = "NULL" THEN "NULL" ELSE IF ptr = live THEN gone ELSE "released twice"

\* Faulty variant of MainEnd: the bitmap is not destroyed.
MainEnd_keeps_bitmap ==
    /\ pc = "end"
    /\ output_path' = Released(output_path, "allocated", "freed")
    /\ mgr_destroyed' = mgr_destroyed + 1
    /\ pc' = "done"
    /\ UNCHANGED << monitor_mgr, options, region_result, optind, sel, last,
                    invoked, mode_failed, retried, stopped_by, tok, save_result,
                    stderr, grab_arg, exit_code, bitmap >>

\* Lines 282-288: the end label.
MainEnd ==
    /\ pc = "end"
    /\ output_path' = Released(output_path, "allocated", "freed")
    /\ bitmap' = Released(bitmap, "created", "destroyed")
    /\ mgr_destroyed' = mgr_destroyed + 1
    /\ pc' = "done"
    /\ UNCHANGED << monitor_mgr, options, region_result, optind, sel, last,
                    invoked, mode_failed, retried, stopped_by, tok, save_result, stderr, grab_arg,
                    exit_code >>

Next ==
    \/ MonitorMgrCreateFails
    \/ ParseOptionsBegin
    \/ CaseO
    \/ CaseH
    \/ CaseError
    \/ CaseD
    \/ CaseM
    \/ CaseR
    \/ CaseI
    \/ SelectPress
    \/ SelectMove
    \/ SelectRelease
    \/ SelectCancel
    \/ CaseW
    \/ ParseOptionsEnd
    \/ MainOptionError
    \/ MainRejectRegion
    \/ MainGrab
    \/ MainEnd

Spec == Init /\ [][Next]_vars

(* ------------------------------------------------------------ properties *)

\* parse_options has returned to main.
Returned == pc \in {"parsed", "end", "done"} /\ monitor_mgr # NULL

\* What parse_options computes when the last mode flag processed is the only
\* flag of the command line: the resolver's result code and the region, which
\* starts as init_region leaves it.
LastFlagAlone ==
    LET r0 == init_region(monitor_mgr)
    IN CASE last.c = "d" -> update_region_from_all_monitors(monitor_mgr)
         [] last.c = "m" ->
                IF monitor_out_of_range(last.optarg, monitor_mgr)
                THEN Outcome(ERR_INVALID_ARGUMENT, r0)
                ELSE update_region_from_monitor(
                         monitor_mgr[atoi(last.optarg) + 1])
         [] last.c = "r" -> update_region_from_string(r0, last.optarg)
         [] last.c = "w" -> update_region_from_active_window(r0, last.env)
         [] last.c = "i" ->
                IF last.env.result = 0 THEN last.env
                ELSE Outcome(last.env.result, r0)

\* The messages of lines 174-190, one per failure kind.
KindMessages == {"canceled", "not_implemented", "invalid_argument", "other"}

KindMessage(k) ==
    CASE k = ERR_CANCELED -> "canceled"
      [] k = ERR_NOT_IMPLEMENTED -> "not_implemented"
      [] k = ERR_INVALID_ARGUMENT -> "invalid_argument"
      [] k = ERR_OTHER -> "other"

\* The bounding box of a monitor sequence, from the monitors' edges.
DesktopBounds(mgr) ==
    LET ms == { mgr[i] : i \in 1..Len(mgr) }
        x0 == CHOOSE v \in { m.x : m \in ms } : \A m \in ms : v <= m.x
        y0 == CHOOSE v \in { m.y : m \in ms } : \A m \in ms : v <= m.y
        x1 == CHOOSE v \in { m.x + m.width : m \in ms } :
                  \A m \in ms : v >= m.x + m.width
        y1 == CHOOSE v \in { m.y + m.height : m \in ms } :
                  \A m \in ms : v >= m.y + m.height
    IN Rect(x0, y0, x1 - x0, y1 - y0)

\* C1 as stated: for a command line of mode flags without an unrecognized
\* option and without --help, the result code and the region parse_options
\* returns are those the last mode flag produces alone.
C1_LastWinsCodeAndRegion ==
    (Returned /\ stopped_by = "none" /\ last.c # "none")
        => /\ region_result = LastFlagAlone.result
           /\ options.region = LastFlagAlone.region

\* C1 amended: the result code is always the one the last mode flag produces
\* alone, and the region is the one it produces alone whenever it succeeds.
C1_LastWins ==
    (Returned /\ stopped_by = "none" /\ last.c # "none")
        => /\ region_result = LastFlagAlone.result
           /\ (LastFlagAlone.result = 0
                  => options.region = LastFlagAlone.region)

\* C1 witness: an earlier mode flag failed, --desktop came last and won.
C1_Witness ==
    /\ Returned
    /\ stopped_by = "none"
    /\ mode_failed
    /\ last.c = "d"
    /\ region_result = 0
    /\ options.region = DesktopBounds(monitor_mgr)

\* C2 as stated: once any mode has failed, no resolver is called afterwards,
\* grab_screenshot is never called and the run ends with exit code 1.
C2_AnyFailureFatal ==
    mode_failed
        => /\ ~retried
           /\ grab_arg = {}
           /\ (pc = "done" => exit_code = 1)

\* C2 amended: when the last mode flag processed fails, grab_screenshot is
\* never called, the exit code is 1 and the all-monitors fallback is not tried.
C2_LastFailureFatal ==
    (Returned /\ last.c # "none" /\ LastFlagAlone.result # 0)
        => /\ grab_arg = {}
           /\ exit_code = 1
           /\ bitmap = "NULL"
           /\ "fallback" \notin invoked

\* C2 witness: the run ended after the user canceled the interactive selection.
C2_Witness ==
    /\ pc = "done"
    /\ last.c = "i"
    /\ last.env.result = ERR_CANCELED
    /\ exit_code = 1

\* C3: when the mode that decides the outcome fails with kind K,
\* parse_options returns with region_result = K, options.error = 1, the
\* message of K and of no other kind printed, and the fallback not applied.
C3_FailureKindPropagated ==
    (Returned /\ last.c # "none" /\ LastFlagAlone.result # 0)
        => /\ region_result = LastFlagAlone.result
           /\ options.error = 1
           /\ stderr \cap KindMessages = {KindMessage(LastFlagAlone.result)}
           /\ "fallback" \notin invoked

\* C3 witness: the active-window query failed with Other after an earlier
\* mode flag had run, and that kind was reported.
C3_Witness ==
    /\ pc = "parsed"
    /\ last.c = "w"
    /\ last.env.result = ERR_OTHER
    /\ optind > 1
    /\ "other" \in stderr

\* The two-monitor layout of the worked example.
ExampleLayout ==
    << Mon(0, 0, 1920, 1080, TRUE), Mon(1920, 0, 1280, 1024, FALSE) >>

\* C4: with no mode flag processed the region is the union of all monitors
\* and resolution succeeds ({0,0,3200,1080} for the example layout); with a
\* mode flag processed, succeeded or failed, the fallback is not applied.
C4_NoModeFallback ==
    Returned
        => /\ (last.c = "none"
                  => /\ region_result = 0
                     /\ "fallback" \in invoked
                     /\ options.region = DesktopBounds(monitor_mgr)
                     /\ (monitor_mgr = ExampleLayout
                            => options.region = Rect(0, 0, 3200, 1080)))
           /\ (last.c # "none" => "fallback" \notin invoked)

\* C4 witness: only --output was given on the example layout.
C4_Witness ==
    /\ pc = "parsed"
    /\ last.c = "none"
    /\ optind = 1
    /\ options.error = 0
    /\ monitor_mgr = ExampleLayout
    /\ options.region = Rect(0, 0, 3200, 1080)

\* C5: grab_screenshot is called only with a region of positive width and
\* height; a run whose resolution succeeded with a region that is not ends
\* with exit code 1, no grab, and the validation message instead of any of
\* the four failure-kind messages.
C5_FinalValidation ==
    /\ \A r \in grab_arg : r.width > 0 /\ r.height > 0
    /\ (/\ pc \in {"end", "done"}
        /\ monitor_mgr # NULL
        /\ options.error = 0
        /\ region_result = 0
        /\ (options.region.width <= 0 \/ options.region.height <= 0))
           => /\ exit_code = 1
              /\ grab_arg = {}
              /\ "non_positive" \in stderr
              /\ stderr \cap KindMessages = {}

\* C5 witness: an interactive click without a drag committed an empty
\* rectangle and the run ended on the validation.
C5_Witness ==
    /\ pc = "done"
    /\ last.c = "i"
    /\ region_result = 0
    /\ options.region.width = 0
    /\ "non_positive" \in stderr

\* C6: the monitor mode with index i, 0 <= i < monitor_count, succeeds with
\* exactly monitor i's rectangle; with i >= monitor_count it fails with
\* InvalidArgument and update_region_from_monitor is not called.
C6_SingleMonitor ==
    (pc = "loop" /\ last.c = "m")
        => LET i == atoi(last.optarg)
               count == Len(monitor_mgr)
           IN /\ (0 <= i /\ i < count)
                     => /\ region_result = 0
                        /\ last.sites = {"monitor"}
                        /\ options.region =
                               Rect(monitor_mgr[i + 1].x, monitor_mgr[i + 1].y,
                                    monitor_mgr[i + 1].width,
                                    monitor_mgr[i + 1].height)
              /\ i >= count
                     => /\ region_result = ERR_INVALID_ARGUMENT
                        /\ last.sites = {}
                        /\ "invalid_monitor_number" \in stderr

\* C6 witness: --monitor 1 on a two-monitor layout chose the second monitor.
C6_Witness ==
    /\ pc = "loop"
    /\ last.c = "m"
    /\ atoi(last.optarg) = 1
    /\ Len(monitor_mgr) = 2
    /\ region_result = 0
    /\ options.region.x = monitor_mgr[2].x

\* C7 as stated: -m N is recognized as the monitor mode like --monitor N,
\* so it raises no option error and the monitor mode runs with argument N.
C7_ShortMonitorFlag ==
    (tok.form = "short" /\ tok.name = "m")
        => /\ stopped_by = "none"
           /\ last.c = getopt_long(Opt("long", "monitor", tok.args)).c
           /\ last.optarg = getopt_long(Opt("long", "monitor", tok.args)).optarg

\* C8 as stated: when -h/--help is among the arguments, no resolver call
\* site is executed and no failure-kind message is printed.
C8_HelpBypassesResolution ==
    stopped_by = "help"
        => /\ invoked = {}
           /\ stderr \cap KindMessages = {}

\* C9: the exit code is 0 exactly when no option error or help stopped the
\* loop, resolution succeeded, the region passed validation and the save
\* succeeded; a resolution or validation failure gives exit code 1.
C9_ExitCode ==
    pc = "done"
        => /\ exit_code \in {0, 1}
           /\ exit_code = 0
                 <=> /\ monitor_mgr # NULL
                     /\ stopped_by = "none"
                     /\ region_result = 0
                     /\ options.region.width > 0
                     /\ options.region.height > 0
                     /\ save_result = 0
           /\ (region_result \notin {0, NoResult} \/ "non_positive" \in stderr)
                 => exit_code = 1

\* C9 witness: a run that saved the screenshot and exits with 0.
C9_Witness ==
    /\ pc = "done"
    /\ exit_code = 0
    /\ save_result = 0
    /\ bitmap = "destroyed"

\* C10: whenever the interactive selector is running, the preceding
\* all-monitors computation succeeded and the working area is the union of
\* all monitors, of positive width and height, throughout the selection.
C10_InteractiveWorkingArea ==
    pc = "select"
        => /\ region_result = 0
           /\ sel.working_area = DesktopBounds(monitor_mgr)
           /\ sel.working_area.width > 0
           /\ sel.working_area.height > 0

\* C10 witness: a drag is under way after a pointer move.
C10_Witness ==
    /\ pc = "select"
    /\ sel.phase = "Dragging"
    /\ sel.moves = 1
    /\ sel.anchor # sel.current

\* A point lies inside a rectangle, its edges included.
Inside(p, r) ==
    /\ r.x <= p.x /\ p.x <= r.x + r.width
    /\ r.y <= p.y /\ p.y <= r.y + r.height

\* A rectangle of non-negative size lies inside another.
RectInside(a, r) ==
    /\ a.width >= 0 /\ a.height >= 0
    /\ Inside(Point(a.x, a.y), r)
    /\ Inside(Point(a.x + a.width, a.y + a.height), r)

\* The rectangle C11 prescribes for an anchor and a current point.
Spanned(anchor, current) ==
    Rect(IF anchor.x <= current.x THEN anchor.x ELSE current.x,
         IF anchor.y <= current.y THEN anchor.y ELSE current.y,
         IF anchor.x <= current.x THEN current.x - anchor.x
                                  ELSE anchor.x - current.x,
         IF anchor.y <= current.y THEN current.y - anchor.y
                                  ELSE anchor.y - current.y)

\* C11, while dragging: anchor and current lie in the working area and the
\* live rectangle is the one they span, of non-negative size, inside the
\* working area; anchor (300,200) and current (100,50) span {100,50,200,150}.
C11_Dragging ==
    (pc = "select" /\ sel.phase = "Dragging")
        => /\ Inside(sel.anchor, sel.working_area)
           /\ Inside(sel.current, sel.working_area)
           /\ LiveRect(sel) = Spanned(sel.anchor, sel.current)
           /\ RectInside(LiveRect(sel), sel.working_area)
           /\ (sel.anchor = Point(300, 200) /\ sel.current = Point(100, 50)
                   => LiveRect(sel) = Rect(100, 50, 200, 150))

\* C11, at commit: the region written is the rectangle spanned by anchor and
\* current at the release, inside the working area.
C11_Commit ==
    [][(pc = "select" /\ sel'.phase = "Committed")
           => /\ region_result' = 0
              /\ options'.region = Spanned(sel.anchor, sel.current)
              /\ RectInside(options'.region, sel.working_area)]_vars

\* C11: after any press and move events the selection rectangle is
\* x = min, y = min, width = |dx|, height = |dy| of the clamped anchor and
\* current points, in every Dragging state and at commit.
C11_SelectionRectangle == []C11_Dragging /\ C11_Commit

\* C11 witness: the drag between (300,200) and (100,50) was committed.
C11_Witness ==
    /\ pc = "loop"
    /\ sel.phase = "Committed"
    /\ last.c = "i"
    /\ region_result = 0
    /\ options.region = Rect(100, 50, 200, 150)

\* C12, phase order: a selector event takes Idle to Dragging or Canceled and
\* Dragging to Dragging, Committed or Canceled.
C12_PhaseOrder ==
    [][pc = "select"
           => \/ sel.phase = "Idle" /\ sel'.phase \in {"Dragging", "Canceled"}
              \/ /\ sel.phase = "Dragging"
                 /\ sel'.phase \in {"Dragging", "Committed", "Canceled"}]_vars

\* C12, terminal phases: in Committed and Canceled the selector has returned,
\* and nothing but the start of a new selection touches the SelectionState.
C12_Terminal ==
    /\ [](sel.phase \in {"Committed", "Canceled"} => pc # "select")
    /\ [][(sel.phase \in {"Committed", "Canceled"} /\ pc' # "select")
              => sel' = sel]_vars

\* C12, outcomes: a cancel returns ERR_CANCELED and leaves the region as it
\* was; Committed is entered only by a release while Dragging, with success,
\* also when anchor and current coincide and the rectangle is empty.
C12_Outcomes ==
    [][/\ (pc = "select" /\ sel'.phase = "Canceled")
              => /\ region_result' = ERR_CANCELED
                 /\ options'.region = options.region
       /\ (sel'.phase = "Committed" /\ sel.phase # "Committed")
              => /\ pc = "select"
                 /\ sel.phase = "Dragging"
                 /\ region_result' = 0
       /\ (pc = "select" /\ sel'.phase = "Committed"
              /\ sel.anchor = sel.current)
              => /\ region_result' = 0
                 /\ options'.region.width = 0
                 /\ options'.region.height = 0]_vars

\* C12: the phase moves Idle -> Dragging -> {Committed, Canceled} or
\* Idle -> Canceled, the two are terminal, a cancel commits nothing, and a
\* release without movement commits an empty rectangle.
C12_SelectionPhases == C12_PhaseOrder /\ C12_Terminal /\ C12_Outcomes

\* C12 witness: a press and a release with no move committed an empty
\* rectangle with success.
C12_Witness ==
    /\ pc = "loop"
    /\ sel.phase = "Committed"
    /\ last.c = "i"
    /\ region_result = 0
    /\ options.region.width = 0
    /\ options.region.height = 0

\* C13: for every monitor layout the all-monitors operation succeeds with
\* x = min m.x, y = min m.y, width = max (m.x + m.width) - x,
\* height = max (m.y + m.height) - y, and --desktop, the no-mode fallback
\* and the interactive working area all use that rectangle.
C13_AllMonitorsUnion ==
    /\ monitor_mgr # NULL
          => update_region_from_all_monitors(monitor_mgr)
                 = Outcome(0, DesktopBounds(monitor_mgr))
    /\ (pc = "loop" /\ last.c = "d")
          => /\ region_result = 0
             /\ options.region = DesktopBounds(monitor_mgr)
    /\ (Returned /\ "fallback" \in invoked)
          => /\ region_result = 0
             /\ options.region = DesktopBounds(monitor_mgr)
    /\ pc = "select" => sel.working_area = DesktopBounds(monitor_mgr)

\* C13 witness: --desktop on the layout whose first monitor lies left of and
\* lower than the second.
C13_Witness ==
    /\ pc = "loop"
    /\ last.c = "d"
    /\ Len(monitor_mgr) = 2
    /\ monitor_mgr[1].x < 0
    /\ options.region = Rect(-1280, 0, 3200, 1080)

\* The monitor C14 centres on: the one marked primary, the first when none is.
DefaultMonitor(mgr) ==
    IF \E i \in 1..Len(mgr) : mgr[i].primary
    THEN mgr[CHOOSE i \in 1..Len(mgr) : mgr[i].primary]
    ELSE mgr[1]

\* C14 as stated: before any flag is processed the region is 640x480 and
\* centred on the primary monitor, or on the first monitor when none is
\* marked primary.
C14_InitialRegionCentred ==
    (pc = "loop" /\ optind = 0)
        => LET m == DefaultMonitor(monitor_mgr)
           IN options.region =
                  Rect(m.x + (m.width - 640) \div 2,
                       m.y + (m.height - 480) \div 2, 640, 480)

\* C15: monitor_mgr_destroy is called exactly once, at the end, also with the
\* null handle; the output path is freed exactly once if and only if it was
\* allocated, the bitmap destroyed exactly once if and only if it was
\* created, and neither is released before the end label.
C15_ResourceRelease ==
    /\ mgr_destroyed = (IF pc = "done" THEN 1 ELSE 0)
    /\ pc # "done"
          => /\ output_path \in {"NULL", "allocated"}
             /\ bitmap \in {"NULL", "created"}
    /\ pc = "done"
          => /\ output_path \in {"NULL", "freed"}
             /\ bitmap \in {"NULL", "destroyed"}
             /\ output_path = "freed"
                   <=> (monitor_mgr # NULL /\ options.error = 0)
             /\ bitmap = "destroyed" <=> grab_arg # {}

\* C15 witness: the run that grabbed the screenshot and failed to save it
\* has released the path, the bitmap and the manager.
C15_Witness ==
    /\ pc = "done"
    /\ save_result = 1
    /\ exit_code = 1
    /\ output_path = "freed"
    /\ bitmap = "destroyed"
    /\ mgr_destroyed = 1

\* C16, in every state: once --help or an option error has stopped the loop,
\* the selector is not running, grab_screenshot has not been called,
\* options.error is non-zero when parse_options has returned and the exit
\* code is non-zero.
C16_Stopped ==
    stopped_by # "none"
        => /\ getopt_long(tok).c \in {"h", "?"}
           /\ pc # "select"
           /\ grab_arg = {}
           /\ bitmap = "NULL"
           /\ (Returned => options.error # 0)
           /\ (pc = "done" => exit_code # 0)

\* C16: after --help or an unrecognized option (or a missing argument) no
\* further option is handed out and no mode runs, options.error is non-zero
\* at return, the exit code is non-zero and grab_screenshot is never called.
C16_OptionErrorStops ==
    /\ []C16_Stopped
    /\ [][stopped_by # "none"
              => /\ optind' = optind
                 /\ tok' = tok
                 /\ last' = last
                 /\ invoked' \subseteq invoked \cup {"fallback"}]_vars

\* C16 witness: --desktop succeeded, an unrecognized option followed, and
\* the run ended with exit code 1.
C16_Witness ==
    /\ pc = "done"
    /\ stopped_by = "option"
    /\ last.c = "d"
    /\ region_result = 0
    /\ exit_code = 1
    /\ grab_arg = {}

\* C17: whatever integer --monitor is given, monitors[] is read only at an
\* index n with 0 <= n < monitor_count, and a negative value ends in
\* InvalidArgument without reading the array.
C17_MonitorIndexInBounds ==
    /\ "out_of_bounds_read" \notin invoked
    /\ (pc = "loop" /\ last.c = "m")
          => LET i == atoi(last.optarg)
             IN /\ "monitor" \in last.sites
                      => (0 <= i /\ i < Len(monitor_mgr))
                /\ i < 0
                      => /\ region_result = ERR_INVALID_ARGUMENT
                         /\ last.sites = {}

\* C17 witness: --monitor -1 was rejected with InvalidArgument.
C17_Witness ==
    /\ pc = "loop"
    /\ last.c = "m"
    /\ atoi(last.optarg) = -1
    /\ ToSizeT(atoi(last.optarg)) = << 65535, 65535, 65535, 65535 >>
    /\ region_result = ERR_INVALID_ARGUMENT
    /\ last.sites = {}

====
